---------------------------- MODULE Spec2Model ----------------------------
(***************************************************************************)
(* Model of src/dashbord.py: the cost dashboard, one Streamlit script run  *)
(* after another.  main() loads the sheet (load_data), builds the sidebar  *)
(* widgets (create_filters), filters the dataset (apply_filters) and       *)
(* renders the metric cards, the charts and the tables from the filtered   *)
(* dataset.                                                                *)
(*                                                                         *)
(* Representation.  A DataFrame is [columns, rows]: the set of its column  *)
(* names and the sequence of its rows; a row keeps the index label (idx)   *)
(* the row got when the sheet was read, as pandas does through boolean     *)
(* indexing and dropna.  A missing number or date (NaN, NaT) is the empty  *)
(* tuple, a present one a non-empty tuple: a number v is <<v>>, a date is  *)
(* <<year, month, day>>.  A missing text cell is the string NaN.  Amounts  *)
(* are whole numbers (the currency's smallest unit), so sums are exact.    *)
(***************************************************************************)
EXTENDS Integers, Sequences, FiniteSets, TLC

VARIABLES
    pc,          \* position of the script run inside main()
    run,         \* the script run: its number in the session, what started it
    session_state, \* st.session_state: the stored dealer-category selection
    sheet,       \* consolidado.xlsx as found on disk: status, header, rows
    load_error,  \* load_data reported st.error (its except branch ran)
    df,          \* the DataFrame load_data returned
    widgets,     \* the values create_filters returns (the predicate set)
    df_filtrado, \* the DataFrame apply_filters returned
    metrics,     \* what create_metrics rendered
    charts,      \* what create_charts rendered
    tables       \* what create_tables rendered

vars == <<pc, run, session_state, sheet, load_error, df, widgets, df_filtrado, metrics, charts, tables>>

-----------------------------------------------------------------------------
(* Bounds of the model. *)

\* Longest sheet (number of data rows) of the pipeline specification.
MaxRows == 3

\* Most widgets the user has moved away from their defaults in one run.
MaxEdits == 3

\* Longest filtered dataset of the ranking specification.
MaxRankRows == 17

\* Longest sheet of the session specification.
MaxSessionRows == 2

\* Most script runs of one session.
MaxRuns == 3

-----------------------------------------------------------------------------
(* Values. *)

NaN == "<NaN>"
NaT == <<>>
NoNumber == <<>>

Range(s) == {s[i] : i \in 1..Len(s)}

Min2(a, b) == IF a <= b THEN a ELSE b

RECURSIVE SumSeq(_)
SumSeq(s) == IF s = <<>> THEN 0 ELSE Head(s) + SumSeq(Tail(s))

\* datetime.date ordering on <<year, month, day>>.
DateLE(a, b) ==
    \/ a[1] < b[1]
    \/ a[1] = b[1] /\ a[2] < b[2]
    \/ a[1] = b[1] /\ a[2] = b[2] /\ a[3] <= b[3]

\* Ordering of text values, as Python's sorted() and groupby's key sort
\* order them: the position in this sorted vocabulary.
SortedNames ==
    <<"A", "B", "BOL", "CUSTO", "F1", "F2",
      "G01", "G02", "G03", "G04", "G05", "G06", "G07", "G08", "G09", "G10",
      "G11", "G12", "G13", "G14", "G15", "G16", "G17", "G18", "G19", "G20",
      "NF", "SINISTRO", "T1", "T2">>

RankOf == [name \in Range(SortedNames) |-> CHOOSE i \in 1..Len(SortedNames) : SortedNames[i] = name]

Rank(name) == RankOf[name]

NameLess(a, b) == Rank(a) < Rank(b)

MonthLess(a, b) == a[1] < b[1] \/ (a[1] = b[1] /\ a[2] < b[2])

-----------------------------------------------------------------------------
(* The sheet. *)

\* Header of a well-formed sheet, as column_mapping expects it.
SheetColumns ==
    {"CATEGORIA SCANIA", "NOME FORNECEDOR", "DATA EMISSIO", "N. DOCUMENTO", "TIPO DOC",
     "DATA VENCIMENTO", "VALOR", "CATEGORIA", "NOME TAREFA", "TAREFA CONSOLIDADA"}

\* column_mapping: header text of the sheet -> column name of the DataFrame.
column_mapping(c) ==
    CASE c = "CATEGORIA SCANIA"   -> "CATEGORIA_SCANIA"
      [] c = "NOME FORNECEDOR"    -> "NOME_FORNECEDOR"
      [] c = "DATA EMISSIO"       -> "DATA_EMISSAO"
      [] c = "N. DOCUMENTO"       -> "DOCUMENTO"
      [] c = "TIPO DOC"           -> "TIPO_DOC"
      [] c = "DATA VENCIMENTO"    -> "DATA_VENCIMENTO"
      [] c = "NOME TAREFA"        -> "NOME_TAREFA"
      [] c = "TAREFA CONSOLIDADA" -> "TAREFA_CONSOLIDADA"
      [] OTHER                    -> c

\* A date cell is day-first text <<day, month, year>>, or text that is no date.
DaysInMonth(m, y) ==
    IF m \in {4, 6, 9, 11} THEN 30
    ELSE IF m = 2 THEN (IF y % 4 = 0 /\ (y % 100 # 0 \/ y % 400 = 0) THEN 29 ELSE 28)
    ELSE 31

\* pd.to_datetime(errors='coerce', dayfirst=True) of one cell.
to_datetime(cell) ==
    IF /\ cell.kind = "text"
       /\ Len(cell.dmy) = 3
       /\ cell.dmy[2] \in 1..12
       /\ cell.dmy[1] \in 1..DaysInMonth(cell.dmy[2], cell.dmy[3])
    THEN <<cell.dmy[3], cell.dmy[2], cell.dmy[1]>>
    ELSE NaT

\* pd.to_numeric(errors='coerce') of one cell: numbers and numeric text
\* convert, other text and blank cells become NaN.
to_numeric(cell) ==
    IF cell.kind \in {"number", "numeric_text"} THEN <<cell.val>> ELSE NoNumber

DateCell(d, m, y) == [kind |-> "text", dmy |-> <<d, m, y>>]
BadDateCell == [kind |-> "text", dmy |-> <<>>]
BlankDateCell == [kind |-> "blank", dmy |-> <<>>]

NumberCell(v) == [kind |-> "number", val |-> v]
NumericTextCell(v) == [kind |-> "numeric_text", val |-> v]
BadTextCell == [kind |-> "text", val |-> 0]
BlankCell == [kind |-> "blank", val |-> 0]

RawRow(emis, venc, valor, scania, cat, tipo, tarefa, cons, forn) ==
    [DATA_EMISSAO |-> emis, DATA_VENCIMENTO |-> venc, VALOR |-> valor, CATEGORIA_SCANIA |-> scania,
     CATEGORIA |-> cat, TIPO_DOC |-> tipo, NOME_TAREFA |-> tarefa,
     TAREFA_CONSOLIDADA |-> cons, NOME_FORNECEDOR |-> forn]

\* The rows a sheet of the pipeline specification is made of.
SheetRow(k) ==
    CASE k = 1 -> RawRow(DateCell(20, 12, 2022), DateCell(15, 1, 2023), NumberCell(100), "A", "CUSTO", "NF", "T1", "G01", "F1")
      [] k = 2 -> RawRow(DateCell(20, 12, 2022), DateCell(10, 2, 2023), NumberCell(200), "B", NaN, "NF", "T2", "G01", "F2")
      [] k = 3 -> RawRow(DateCell(5, 12, 2023), DateCell(5, 1, 2024), NumericTextCell(50), "A", "SINISTRO", "BOL", "T1", "G02", "F1")
      [] OTHER -> RawRow(DateCell(1, 3, 2023), BadDateCell, NumberCell(70), "B", "CUSTO", "BOL", "T2", "G02", "F2")

SheetRowIds == 1..4

\* The rows a sheet of the loader specification is made of: every kind of
\* VALOR cell, with and without a readable due date.
LoaderRow(k) ==
    CASE k = 1 -> RawRow(DateCell(20, 12, 2022), DateCell(15, 1, 2023), NumberCell(100), "A", "CUSTO", "NF", "T1", "G01", "F1")
      [] k = 2 -> RawRow(DateCell(20, 12, 2022), DateCell(10, 2, 2023), BadTextCell, "B", "CUSTO", "NF", "T2", "G01", "F2")
      [] k = 3 -> RawRow(BadDateCell, DateCell(31, 2, 2023), NumericTextCell(50), "A", "SINISTRO", "BOL", "T1", "G02", "F1")
      [] k = 4 -> RawRow(BlankDateCell, BlankDateCell, BlankCell, "B", NaN, "BOL", "T2", "G02", "F2")
      [] OTHER -> RawRow(DateCell(5, 12, 2023), DateCell(5, 1, 2024), NumberCell(70), "B", NaN, "NF", "T1", "G01", "F1")

LoaderRowIds == 1..5

\* Sequences over S of length at most n; InjSeqUpTo keeps those without a
\* repeated element.
SeqUpTo(S, n) == UNION {[1..k -> S] : k \in 0..n}

InjSeqUpTo(S, n) == {s \in SeqUpTo(S, n) : \A i, j \in 1..Len(s) : s[i] = s[j] => i = j}

ReadableSheet(columns, rows) == [status |-> "ok", columns |-> columns, rows |-> rows]

\* read_excel raises: no consolidado.xlsx, or no sheet 'OFICIAL TABLE | DATE'.
UnreadableSheets ==
    {[status |-> st, columns |-> {}, rows |-> <<>>] : st \in {"no_file", "no_sheet"}}

-----------------------------------------------------------------------------
(* load_data *)

EmptyDataFrame == [columns |-> {}, rows |-> <<>>]

empty(frame) == frame.rows = <<>> \/ frame.columns = {}

\* Lines 95-98: the header after the renames.
RenamedColumns(columns) == {column_mapping(c) : c \in columns}

\* Lines 106-112: ANO, MES, MES_ANO, MES_NOME and ANO_MES exist when the due
\* date column does.
DerivedColumns(columns) ==
    IF "DATA_VENCIMENTO" \in columns THEN {"ANO", "MES", "MES_ANO", "MES_NOME", "ANO_MES"} ELSE {}

\* .dt.year and .dt.month of a parsed date; NaN for NaT.
dt_year(d) == IF d = NaT THEN NoNumber ELSE <<d[1]>>

dt_month(d) == IF d = NaT THEN NoNumber ELSE <<d[2]>>

\* Variant of NormalizedRow: year and month are taken from the issue date.
NormalizedRow_FromIssueDate(columns, raw, i) ==
    LET venc == IF "DATA_VENCIMENTO" \in columns THEN to_datetime(raw.DATA_VENCIMENTO) ELSE NaT
        emis == IF "DATA_EMISSAO" \in columns THEN to_datetime(raw.DATA_EMISSAO) ELSE NaT
    IN  [idx |-> i,
         DATA_EMISSAO |-> emis,
         DATA_VENCIMENTO |-> venc,
         ANO |-> dt_year(emis),
         MES |-> dt_month(emis),
         VALOR |-> to_numeric(raw.VALOR),
         CATEGORIA_SCANIA |-> raw.CATEGORIA_SCANIA,
         CATEGORIA |-> raw.CATEGORIA,
         TIPO_DOC |-> raw.TIPO_DOC,
         NOME_TAREFA |-> raw.NOME_TAREFA,
         TAREFA_CONSOLIDADA |-> raw.TAREFA_CONSOLIDADA,
         NOME_FORNECEDOR |-> raw.NOME_FORNECEDOR]

\* Lines 100-117 on row i of the sheet: dates parsed, year and month derived
\* from the due date, VALOR coerced.
NormalizedRow(columns, raw, i) ==
    LET venc == IF "DATA_VENCIMENTO" \in columns THEN to_datetime(raw.DATA_VENCIMENTO) ELSE NaT
        emis == IF "DATA_EMISSAO" \in columns THEN to_datetime(raw.DATA_EMISSAO) ELSE NaT
    IN  [idx |-> i,
         DATA_EMISSAO |-> emis,
         DATA_VENCIMENTO |-> venc,
         ANO |-> dt_year(venc),
         MES |-> dt_month(venc),
         VALOR |-> to_numeric(raw.VALOR),
         CATEGORIA_SCANIA |-> raw.CATEGORIA_SCANIA,
         CATEGORIA |-> raw.CATEGORIA,
         TIPO_DOC |-> raw.TIPO_DOC,
         NOME_TAREFA |-> raw.NOME_TAREFA,
         TAREFA_CONSOLIDADA |-> raw.TAREFA_CONSOLIDADA,
         NOME_FORNECEDOR |-> raw.NOME_FORNECEDOR]

HasValor(r) == r.VALOR # NoNumber

\* Variant of dropna_VALOR: no row is dropped.
dropna_VALOR_KeepsAll(rows) == rows

\* Line 120: df.dropna(subset=['VALOR']) keeps the rows whose VALOR is not NaN.
dropna_VALOR(rows) == SelectSeq(rows, HasValor)

\* Variant of load_data: a sheet without a VALOR column is returned as read,
\* without the error.
load_data_NoKeyError(s) ==
    LET columns == RenamedColumns(s.columns)
        rows == [i \in 1..Len(s.rows) |-> NormalizedRow(columns, s.rows[i], i)]
    IN  IF s.status # "ok"
        THEN [error |-> TRUE, df |-> EmptyDataFrame]
        ELSE [error |-> FALSE,
              df |-> [columns |-> columns \cup DerivedColumns(columns),
                      rows |-> IF "VALOR" \in columns THEN dropna_VALOR(rows) ELSE rows]]

\* load_data (lines 67-132): [error, df].  read_excel raises when the file or
\* the sheet is missing, dropna raises KeyError when there is no VALOR
\* column; the except branch reports the error and returns pd.DataFrame().
load_data(s) ==
    LET columns == RenamedColumns(s.columns)
        rows == [i \in 1..Len(s.rows) |-> NormalizedRow(columns, s.rows[i], i)]
    IN  IF s.status # "ok" \/ "VALOR" \notin columns
        THEN [error |-> TRUE, df |-> EmptyDataFrame]
        ELSE [error |-> FALSE,
              df |-> [columns |-> columns \cup DerivedColumns(columns),
                      rows |-> dropna_VALOR(rows)]]

-----------------------------------------------------------------------------
(* create_filters *)

Column(frame, name) == {frame.rows[i][name] : i \in 1..Len(frame.rows)}

\* Series.min() / .max() of the due dates: NaT is skipped; NaT when there is
\* no parsed date at all.
MinDate(frame) ==
    LET ds == Column(frame, "DATA_VENCIMENTO") \ {NaT}
    IN  IF ds = {} THEN NaT ELSE CHOOSE d \in ds : \A e \in ds : DateLE(d, e)

MaxDate(frame) ==
    LET ds == Column(frame, "DATA_VENCIMENTO") \ {NaT}
    IN  IF ds = {} THEN NaT ELSE CHOOSE d \in ds : \A e \in ds : DateLE(e, d)

\* Lines 162-163, when there is no due date column: 2024-01-01 and today.
FallbackInicio == <<2024, 1, 1>>

FallbackFim == <<2026, 11, 2>>

Todos == [todos |-> TRUE, ano |-> NoNumber]

Ano(y) == [todos |-> FALSE, ano |-> y]

\* The options of a multiselect over a column: df[col].unique(); none when
\* the column is absent or the dataset empty (lines 198-205 and alike).
Options(frame, name) ==
    IF name \in frame.columns /\ ~empty(frame) THEN Column(frame, name) ELSE {}

\* Lines 183-191: "Todos" and the years of the dataset.
AnoOptions(frame) ==
    {Todos} \cup (IF "ANO" \in frame.columns /\ ~empty(frame)
                  THEN {Ano(y) : y \in Column(frame, "ANO")} ELSE {})

\* The dates the two date inputs offer: they are bounded by min_date and
\* max_date (lines 167-180); the model offers the due dates of the dataset.
DateOptions(frame) ==
    IF "DATA_VENCIMENTO" \in frame.columns /\ ~empty(frame)
    THEN (Column(frame, "DATA_VENCIMENTO") \ {NaT}) \cup {MinDate(frame)}
    ELSE {}

WidgetNames ==
    {"data_inicio", "data_fim", "ano_selecionado", "categorias_selecionadas",
     "categorias", "tipos_doc", "nomes_tarefa", "tarefas_consolidadas"}

\* What create_filters returns when the user touches nothing: each widget's
\* value= / index= / default=.  The dealer multiselect defaults to the stored
\* selection (line 245).
DefaultWidgets(frame, stored) ==
    [data_inicio |-> IF DateOptions(frame) = {} THEN FallbackInicio ELSE MinDate(frame),
     data_fim |-> IF DateOptions(frame) = {} THEN FallbackFim ELSE MaxDate(frame),
     ano_selecionado |-> Todos,
     categorias_selecionadas |->
         IF Options(frame, "CATEGORIA_SCANIA") = {} THEN {} ELSE stored,
     categorias |-> Options(frame, "CATEGORIA"),
     tipos_doc |-> Options(frame, "TIPO_DOC"),
     nomes_tarefa |-> Options(frame, "NOME_TAREFA"),
     tarefas_consolidadas |-> Options(frame, "TAREFA_CONSOLIDADA")]

\* The values widget `name` can take: any offered date, any year option, any
\* subset of a multiselect's options.
WidgetValues(frame, stored, name) ==
    CASE name \in {"data_inicio", "data_fim"} ->
             DateOptions(frame) \cup {DefaultWidgets(frame, stored)[name]}
      [] name = "ano_selecionado" -> AnoOptions(frame)
      [] name = "categorias_selecionadas" -> SUBSET Options(frame, "CATEGORIA_SCANIA")
      [] name = "categorias" -> SUBSET Options(frame, "CATEGORIA")
      [] name = "tipos_doc" -> SUBSET Options(frame, "TIPO_DOC")
      [] name = "nomes_tarefa" -> SUBSET Options(frame, "NOME_TAREFA")
      [] OTHER -> SUBSET Options(frame, "TAREFA_CONSOLIDADA")

\* The widget states of one run: at most `edits` widgets differ from their
\* defaults.
WidgetStates(frame, stored, edits) ==
    LET dflt == DefaultWidgets(frame, stored)
        Pick(edited, name) ==
            IF name \in edited THEN WidgetValues(frame, stored, name) ELSE {dflt[name]}
    IN  UNION {
          [data_inicio : Pick(edited, "data_inicio"),
           data_fim : Pick(edited, "data_fim"),
           ano_selecionado : Pick(edited, "ano_selecionado"),
           categorias_selecionadas : Pick(edited, "categorias_selecionadas"),
           categorias : Pick(edited, "categorias"),
           tipos_doc : Pick(edited, "tipos_doc"),
           nomes_tarefa : Pick(edited, "nomes_tarefa"),
           tarefas_consolidadas : Pick(edited, "tarefas_consolidadas")]
          : edited \in {e \in SUBSET WidgetNames : Cardinality(e) <= edits}}

-----------------------------------------------------------------------------
(* apply_filters *)

\* Variant of InDateRange: the end of the range is excluded (< for <=).
InDateRange_EndExcluded(r, data_inicio, data_fim) ==
    /\ r.DATA_VENCIMENTO # NaT
    /\ data_inicio # NaT
    /\ data_fim # NaT
    /\ DateLE(data_inicio, r.DATA_VENCIMENTO)
    /\ DateLE(r.DATA_VENCIMENTO, data_fim)
    /\ r.DATA_VENCIMENTO # data_fim

\* Lines 269-272: .dt.date >= data_inicio and <= data_fim, both inclusive.
\* A comparison with NaT on either side is False.
InDateRange(r, data_inicio, data_fim) ==
    /\ r.DATA_VENCIMENTO # NaT
    /\ data_inicio # NaT
    /\ data_fim # NaT
    /\ DateLE(data_inicio, r.DATA_VENCIMENTO)
    /\ DateLE(r.DATA_VENCIMENTO, data_fim)

\* Line 276: df['ANO'] == ano_selecionado; NaN equals nothing.
AnoMatches(r, ano_selecionado) ==
    r.ANO # NoNumber /\ r.ANO = ano_selecionado.ano

\* Variant of Mask: the kept rows come out in reverse order.
Mask_Reversed(rows, keep) ==
    LET Keep(r) == r.idx \in keep
        kept == SelectSeq(rows, Keep)
    IN  [i \in 1..Len(kept) |-> kept[Len(kept) + 1 - i]]

\* Boolean indexing df[mask]: the rows whose mask is True, in their order.
Mask(rows, keep) ==
    LET Keep(r) == r.idx \in keep IN SelectSeq(rows, Keep)

\* Lines 267-272.
FilterDate(frame, w) ==
    IF "DATA_VENCIMENTO" \in frame.columns /\ ~empty(frame)
    THEN [frame EXCEPT !.rows = Mask(frame.rows,
            {r.idx : r \in {x \in Range(frame.rows) : InDateRange(x, w.data_inicio, w.data_fim)}})]
    ELSE frame

\* Variant of FilterAno: the year step is never applied.
FilterAno_Skipped(frame, w) == frame

\* Lines 274-276.
FilterAno(frame, w) ==
    IF ~w.ano_selecionado.todos /\ "ANO" \in frame.columns
    THEN [frame EXCEPT !.rows = Mask(frame.rows,
            {r.idx : r \in {x \in Range(frame.rows) : AnoMatches(x, w.ano_selecionado)}})]
    ELSE frame

\* Variant of FilterIsin: no test of the selection being non-empty, so an
\* empty selection keeps no row.
FilterIsin_NoEmptyTest(frame, name, selected) ==
    IF name \in frame.columns
    THEN [frame EXCEPT !.rows = Mask(frame.rows,
            {r.idx : r \in {x \in Range(frame.rows) : x[name] \in selected}})]
    ELSE frame

\* Lines 278-297: `if selected and col in columns: df = df[df[col].isin(selected)]`.
\* An empty list is falsy, so the step is skipped for an empty selection.
FilterIsin(frame, name, selected) ==
    IF selected # {} /\ name \in frame.columns
    THEN [frame EXCEPT !.rows = Mask(frame.rows,
            {r.idx : r \in {x \in Range(frame.rows) : x[name] \in selected}})]
    ELSE frame

\* apply_filters (lines 263-299): the steps in the order of the code, each on
\* the result of the one before.
apply_filters(frame, w) ==
    LET f1 == FilterDate(frame, w)
        f2 == FilterAno(f1, w)
        f3 == FilterIsin(f2, "CATEGORIA_SCANIA", w.categorias_selecionadas)
        f4 == FilterIsin(f3, "CATEGORIA", w.categorias)
        f5 == FilterIsin(f4, "TIPO_DOC", w.tipos_doc)
        f6 == FilterIsin(f5, "NOME_TAREFA", w.nomes_tarefa)
    IN  FilterIsin(f6, "TAREFA_CONSOLIDADA", w.tarefas_consolidadas)

-----------------------------------------------------------------------------
(* Aggregation: groupby(...)['VALOR'].sum(), sort_values, head. *)

\* The key of row r in a groupby over `by`: the (year, month) of the due date
\* for the monthly grouping, else the cell of column `by`.
GroupKey(r, by) ==
    IF by = "MES_ANO"
    THEN (IF r.DATA_VENCIMENTO = NaT THEN NaT ELSE <<r.ANO[1], r.MES[1]>>)
    ELSE r[by]

MissingKey(by) == IF by = "MES_ANO" THEN NaT ELSE NaN

KeyLess(by, a, b) == IF by = "MES_ANO" THEN MonthLess(a, b) ELSE NameLess(a, b)

\* Sum of VALOR, and number of rows, over the rows whose key is k.
GroupRows(rows, by, k) ==
    LET InGroup(r) == GroupKey(r, by) = k IN SelectSeq(rows, InGroup)

GroupSum(rows, by, k) ==
    LET members == GroupRows(rows, by, k)
    IN  SumSeq([i \in 1..Len(members) |-> members[i].VALOR[1]])

\* The keys in ascending order.
RECURSIVE SortKeys(_, _)
SortKeys(keys, by) ==
    IF keys = {} THEN <<>>
    ELSE LET least == CHOOSE k \in keys : \A j \in keys : ~KeyLess(by, j, k)
         IN  <<least>> \o SortKeys(keys \ {least}, by)

GroupEntries(rows, by, sorted) ==
    [n \in 1..Len(sorted) |->
        [key |-> sorted[n],
         VALOR |-> GroupSum(rows, by, sorted[n]),
         count |-> Len(GroupRows(rows, by, sorted[n]))]]

\* groupby(by)['VALOR'].sum().reset_index(): one entry per key, keys in
\* ascending order (sort=True); rows whose key is missing form no group
\* (dropna=True).
groupby_sum(rows, by) ==
    GroupEntries(rows, by, SortKeys({GroupKey(r, by) : r \in Range(rows)} \ {MissingKey(by)}, by))

\* sort_values('VALOR', ascending=...): entries by value; entries of equal
\* value stay in their order, or come reversed, by the sort kernel in use
\* (the default kind is not stable).
ValueBefore(a, b, ascending) ==
    IF ascending THEN a.VALOR < b.VALOR ELSE a.VALOR > b.VALOR

\* One entry put into an already sorted sequence: before the first entry it
\* must precede; among equal values after them, or before them.
RECURSIVE InsertSorted(_, _, _, _)
InsertSorted(e, sorted, ascending, reversed_ties) ==
    IF sorted = <<>> THEN <<e>>
    ELSE IF \/ ValueBefore(e, Head(sorted), ascending)
            \/ (reversed_ties /\ e.VALOR = Head(sorted).VALOR)
         THEN <<e>> \o sorted
         ELSE <<Head(sorted)>> \o InsertSorted(e, Tail(sorted), ascending, reversed_ties)

RECURSIVE SortFrom(_, _, _, _)
SortFrom(entries, sorted, ascending, reversed_ties) ==
    IF entries = <<>> THEN sorted
    ELSE SortFrom(Tail(entries), InsertSorted(Head(entries), sorted, ascending, reversed_ties),
                  ascending, reversed_ties)

\* Variant of sort_values: the entries stay in group-key order.
sort_values_Unsorted(entries, ascending, reversed_ties) == entries

sort_values(entries, ascending, reversed_ties) ==
    SortFrom(entries, <<>>, ascending, reversed_ties)

\* Variant of head: one entry too many.
head_OneMore(entries, n) == SubSeq(entries, 1, Min2(n + 1, Len(entries)))

\* .head(n)
head(entries, n) == SubSeq(entries, 1, Min2(n, Len(entries)))

\* Line 524: head(15).
TopTarefas == 15

\* Lines 365-367: one entry per (MES_ANO, MES_NOME, ANO, MES), all four
\* functions of the due date's year and month; sorted by (ANO, MES).
MonthlyAggregate(frame) ==
    IF "MES_ANO" \in frame.columns /\ "VALOR" \in frame.columns
    THEN groupby_sum(frame.rows, "MES_ANO")
    ELSE <<>>

\* Lines 422-423.
CategoryAggregate(frame) ==
    IF "CATEGORIA" \in frame.columns /\ "VALOR" \in frame.columns
    THEN groupby_sum(frame.rows, "CATEGORIA")
    ELSE <<>>

\* Lines 472-474.
DealerAggregate(frame, reversed_ties) ==
    IF "CATEGORIA_SCANIA" \in frame.columns /\ "VALOR" \in frame.columns
    THEN sort_values(groupby_sum(frame.rows, "CATEGORIA_SCANIA"), TRUE, reversed_ties)
    ELSE <<>>

\* create_tarefa_consolidada_chart, lines 522-524.
TarefaAggregate(frame, reversed_ties) ==
    IF "TAREFA_CONSOLIDADA" \in frame.columns /\ "VALOR" \in frame.columns /\ ~empty(frame)
    THEN head(sort_values(groupby_sum(frame.rows, "TAREFA_CONSOLIDADA"),
                          FALSE, reversed_ties), TopTarefas)
    ELSE <<>>

\* Lines 587-595: total and document count per supplier, by total descending.
\* Every modelled row has a document number, so the count is the group size.
FornecedorAggregate(frame, reversed_ties) ==
    IF "NOME_FORNECEDOR" \in frame.columns /\ "VALOR" \in frame.columns
    THEN sort_values(groupby_sum(frame.rows, "NOME_FORNECEDOR"), FALSE, reversed_ties)
    ELSE <<>>

-----------------------------------------------------------------------------
(* The views. *)

Valores(frame) == [i \in 1..Len(frame.rows) |-> frame.rows[i].VALOR[1]]

MaxOf(S) == CHOOSE v \in S : \A u \in S : u <= v

\* Nothing rendered yet.
NoMetrics ==
    [rendered |-> FALSE, zero_cards |-> FALSE, custo_total |-> 0, qtd_registros |-> 0,
     custo_medio |-> 0, maior_despesa |-> 0]

NoCharts ==
    [rendered |-> FALSE, warning |-> FALSE,
     df_mensal |-> <<>>, df_categoria |-> <<>>, df_concessionaria |-> <<>>]

NoTables ==
    [rendered |-> FALSE, warning |-> FALSE,
     df_tarefa |-> <<>>, df_fornecedores |-> <<>>, download |-> <<>>]

\* create_metrics (lines 301-353): the four cards.  Each card shows its zero
\* text when the dataset is empty.  The mean is the total divided by the
\* record count (whole division here).
create_metrics(frame) ==
    LET has == ~empty(frame) /\ "VALOR" \in frame.columns
        custo_total == IF has THEN SumSeq(Valores(frame)) ELSE 0
        qtd_registros == IF ~empty(frame) THEN Len(frame.rows) ELSE 0
    IN  [rendered |-> TRUE,
         zero_cards |-> ~has,
         custo_total |-> custo_total,
         qtd_registros |-> qtd_registros,
         custo_medio |-> IF has /\ qtd_registros > 0 THEN custo_total \div qtd_registros ELSE 0,
         maior_despesa |-> IF has THEN MaxOf(Range(Valores(frame))) ELSE 0]

\* create_charts (lines 355-516): the warning and nothing else for an empty
\* dataset, else the monthly, category and dealer aggregates.
create_charts(frame, reversed_ties) ==
    IF empty(frame)
    THEN [rendered |-> TRUE, warning |-> TRUE,
          df_mensal |-> <<>>, df_categoria |-> <<>>, df_concessionaria |-> <<>>]
    ELSE [rendered |-> TRUE, warning |-> FALSE,
          df_mensal |-> MonthlyAggregate(frame),
          df_categoria |-> CategoryAggregate(frame),
          df_concessionaria |-> DealerAggregate(frame, reversed_ties)]

\* Variant of create_tables: no test for an empty dataset (lines 575-577
\* left out).
create_tables_NoEmptyTest(frame, reversed_ties) ==
    [rendered |-> TRUE, warning |-> FALSE,
     df_tarefa |-> TarefaAggregate(frame, reversed_ties),
     df_fornecedores |-> FornecedorAggregate(frame, reversed_ties),
     download |-> <<frame>>]

\* create_tables (lines 572-657): the warning and nothing else for an empty
\* dataset, else the consolidated-task chart, the supplier ranking, the full
\* table and the download button for the filtered dataset.
create_tables(frame, reversed_ties) ==
    IF empty(frame)
    THEN [rendered |-> TRUE, warning |-> TRUE,
          df_tarefa |-> <<>>, df_fornecedores |-> <<>>, download |-> <<>>]
    ELSE [rendered |-> TRUE, warning |-> FALSE,
          df_tarefa |-> TarefaAggregate(frame, reversed_ties),
          df_fornecedores |-> FornecedorAggregate(frame, reversed_ties),
          download |-> <<frame>>]

-----------------------------------------------------------------------------
(* main(): one script run, one action per call. *)

NoWidgets == DefaultWidgets(EmptyDataFrame, {})

\* Line 232: sorted(df['CATEGORIA_SCANIA'].unique()).
categorias_scania(frame) == SortKeys(Options(frame, "CATEGORIA_SCANIA"), "CATEGORIA_SCANIA")

\* Lines 231-240: the stored selection after the button and the
\* initialisation.  The button is True in the run its click started; the
\* initialisation runs when the session state has no stored selection.
StoredSelection(frame, state, button) ==
    IF "CATEGORIA_SCANIA" \in frame.columns /\ ~empty(frame)
    THEN (IF button
          THEN [state EXCEPT !.selected_categories = categorias_scania(frame)]
          ELSE IF ~state.defined
               THEN [defined |-> TRUE, selected_categories |-> categorias_scania(frame)]
               ELSE state)
    ELSE state

\* Lines 659-677: the stored selection is created empty when absent, the
\* sheet is loaded, and main reports the failure and returns when the
\* dataset is empty.
Main_load_data ==
    /\ pc = "start"
    /\ session_state' =
          IF session_state.defined THEN session_state
          ELSE [defined |-> TRUE, selected_categories |-> <<>>]
    /\ load_error' = load_data(sheet).error
    /\ df' = load_data(sheet).df
    /\ pc' = IF empty(load_data(sheet).df) THEN "stopped" ELSE "loaded"
    /\ UNCHANGED <<run, sheet, widgets, df_filtrado, metrics, charts, tables>>

\* Line 683: the sidebar widgets and the values the user has given them; the
\* dealer multiselect defaults to the stored selection as lines 235-240 left
\* it.  When no due date was parsed, min() is NaT: the date inputs either
\* pass it on or raise, and the run ends there.
Main_create_filters ==
    /\ pc = "loaded"
    /\ \/ /\ session_state' = StoredSelection(df, session_state, run.button)
          /\ \E w \in WidgetStates(df, Range(session_state'.selected_categories), run.edits) :
                widgets' = w
          /\ pc' = "filters"
       \/ /\ DateOptions(df) = {NaT}
          /\ UNCHANGED <<session_state, widgets>>
          /\ pc' = "raised"
    /\ UNCHANGED <<run, sheet, load_error, df, df_filtrado, metrics, charts, tables>>

\* Variant of Main_apply_filters: the steps filter the dataset passed in
\* (no copy, rows dropped in place).
Main_apply_filters_InPlace ==
    /\ pc = "filters"
    /\ df_filtrado' = apply_filters(df, widgets)
    /\ df' = df_filtrado'
    /\ pc' = "filtered"
    /\ UNCHANGED <<run, session_state, sheet, load_error, widgets, metrics, charts, tables>>

\* Line 686: apply_filters works on df.copy() (line 265) and every step
\* rebinds the local name to a new frame, so the caller's df is untouched.
Main_apply_filters ==
    /\ pc = "filters"
    /\ df_filtrado' = apply_filters(df, widgets)
    /\ pc' = "filtered"
    /\ UNCHANGED <<run, session_state, sheet, load_error, df, widgets, metrics, charts, tables>>

\* Line 689.
Main_create_metrics ==
    /\ pc = "filtered"
    /\ metrics' = create_metrics(df_filtrado)
    /\ pc' = "metrics"
    /\ UNCHANGED <<run, session_state, sheet, load_error, df, widgets, df_filtrado, charts, tables>>

\* Line 694.
Main_create_charts ==
    /\ pc = "metrics"
    /\ \E reversed_ties \in BOOLEAN : charts' = create_charts(df_filtrado, reversed_ties)
    /\ pc' = "charts"
    /\ UNCHANGED <<run, session_state, sheet, load_error, df, widgets, df_filtrado, metrics, tables>>

\* Line 699.
Main_create_tables ==
    /\ pc = "charts"
    /\ \E reversed_ties \in BOOLEAN : tables' = create_tables(df_filtrado, reversed_ties)
    /\ pc' = "done"
    /\ UNCHANGED <<run, session_state, sheet, load_error, df, widgets, df_filtrado, metrics, charts>>

-----------------------------------------------------------------------------
(* The pipeline specification: every sheet of at most MaxRows rows. *)

Headers ==
    {SheetColumns, SheetColumns \ {"VALOR"}, SheetColumns \ {"DATA VENCIMENTO"}}

PipelineSheets ==
    UnreadableSheets \cup
    {ReadableSheet(h, [i \in 1..Len(ids) |-> SheetRow(ids[i])]) :
        h \in Headers, ids \in InjSeqUpTo(SheetRowIds, MaxRows)}

FirstRun(s, edits) ==
    /\ pc = "start"
    /\ run = [number |-> 1, button |-> FALSE, edits |-> edits]
    /\ session_state = [defined |-> FALSE, selected_categories |-> <<>>]
    /\ sheet = s
    /\ load_error = FALSE
    /\ df = EmptyDataFrame
    /\ widgets = NoWidgets
    /\ df_filtrado = EmptyDataFrame
    /\ metrics = NoMetrics
    /\ charts = NoCharts
    /\ tables = NoTables

Init == \E s \in PipelineSheets : FirstRun(s, MaxEdits)

Next ==
    \/ Main_load_data
    \/ Main_create_filters
    \/ Main_apply_filters
    \/ Main_create_metrics
    \/ Main_create_charts
    \/ Main_create_tables

Spec == Init /\ [][Next]_vars

-----------------------------------------------------------------------------
(* The loader specification: sheets with every kind of VALOR cell, rows     *)
(* repeated or not; only the load step runs.                                *)

LoaderSheets ==
    UnreadableSheets \cup
    {ReadableSheet(h, [i \in 1..Len(ids) |-> LoaderRow(ids[i])]) :
        h \in Headers, ids \in SeqUpTo(LoaderRowIds, MaxRows)}

InitLoad == \E s \in LoaderSheets : FirstRun(s, MaxEdits)

NextLoad == Main_load_data

SpecLoad == InitLoad /\ [][NextLoad]_vars

-----------------------------------------------------------------------------
(* The ranking specification: long datasets with many consolidated tasks,   *)
(* past the filters with the widgets untouched; the three views run.        *)

\* The due month of row i of a ranking sheet: 2023-12, 2023-01, 2024-01 and
\* 2023-02 in turn.
RankDue(i) ==
    CASE i % 4 = 1 -> DateCell(15, 12, 2023)
      [] i % 4 = 2 -> DateCell(15, 1, 2023)
      [] i % 4 = 3 -> DateCell(15, 1, 2024)
      [] OTHER     -> DateCell(15, 2, 2023)

\* Row i of a ranking sheet: one of `tasks` consolidated task names in turn,
\* one of three dealer categories in turn, amount 1 for row `low`, 3 for row
\* `high`, else 2; issued in 2022-01 or 2022-02, due in one of four months.
RankRow(i, tasks, low, high) ==
    RawRow(DateCell(1, 1 + (i % 2), 2022),
           RankDue(i),
           NumberCell(IF i = high THEN 3 ELSE IF i = low THEN 1 ELSE 2),
           SortedNames[6 + ((i - 1) % 3) + 1],
           "CUSTO", "NF", "T1",
           SortedNames[6 + ((i - 1) % tasks) + 1],
           IF i % 2 = 0 THEN "F1" ELSE "F2")

RankSheetsOf(n) ==
    {ReadableSheet(SheetColumns, [i \in 1..n |-> RankRow(i, tasks, low, high)]) :
        tasks \in {3, n - 1, n} \ {0}, low \in 0..n, high \in 0..n}

RankSheets == UNION {RankSheetsOf(n) : n \in 1..MaxRankRows}

\* The state of a first run that has loaded sheet s, left every widget alone
\* and applied the filters.
FilteredRun(s) ==
    /\ pc = "filtered"
    /\ run = [number |-> 1, button |-> FALSE, edits |-> 0]
    /\ session_state = [defined |-> TRUE, selected_categories |-> <<>>]
    /\ sheet = s
    /\ load_error = load_data(s).error
    /\ df = load_data(s).df
    /\ widgets = DefaultWidgets(df, {})
    /\ df_filtrado = apply_filters(df, widgets)
    /\ metrics = NoMetrics
    /\ charts = NoCharts
    /\ tables = NoTables

InitRank == \E s \in RankSheets : FilteredRun(s)

NextRank ==
    \/ Main_create_metrics
    \/ Main_create_charts
    \/ Main_create_tables

SpecRank == InitRank /\ [][NextRank]_vars

-----------------------------------------------------------------------------
(* The session specification: the script runs again on every interaction.  *)
(* The first run comes before any interaction, so every widget has its     *)
(* default; each later run is started by one more widget being moved, by   *)
(* the "Todas as Categorias" button, or by a plain rerun.                  *)

SessionSheets ==
    UnreadableSheets \cup
    {ReadableSheet(h, [i \in 1..Len(ids) |-> SheetRow(ids[i])]) :
        h \in Headers, ids \in InjSeqUpTo(SheetRowIds, MaxSessionRows)}

\* The button exists on the page when the last run got to draw it.
ButtonDrawn ==
    pc \in {"filters", "filtered", "metrics", "charts", "done"}
        /\ "CATEGORIA_SCANIA" \in df.columns /\ ~empty(df)

\* Streamlit runs the script again, top to bottom: st.session_state lives
\* on, load_data is served from st.cache_data, and everything main() built
\* is built anew.
Rerun ==
    /\ pc \in {"stopped", "raised", "done"}
    /\ run.number < MaxRuns
    /\ \E button \in {b \in BOOLEAN : b => ButtonDrawn} :
       \E edits \in {run.edits, Min2(run.edits + 1, MaxEdits)} :
          /\ button => edits = run.edits
          /\ run' = [number |-> run.number + 1, button |-> button, edits |-> edits]
    /\ pc' = "start"
    /\ load_error' = FALSE
    /\ df' = EmptyDataFrame
    /\ widgets' = NoWidgets
    /\ df_filtrado' = EmptyDataFrame
    /\ metrics' = NoMetrics
    /\ charts' = NoCharts
    /\ tables' = NoTables
    /\ UNCHANGED <<session_state, sheet>>

InitSession == \E s \in SessionSheets : FirstRun(s, 0)

NextSession ==
    \/ Main_load_data
    \/ Main_create_filters
    \/ Main_apply_filters
    \/ Main_create_metrics
    \/ Main_create_charts
    \/ Main_create_tables
    \/ Rerun

SpecSession == InitSession /\ [][NextSession]_vars

-----------------------------------------------------------------------------
(* Properties of apply_filters (pipeline specification). *)

\* The run is past apply_filters: df_filtrado is its result for df and widgets.
Filtered == pc \in {"filtered", "metrics", "charts", "done"}

Position(rows, r) == CHOOSE i \in 1..Len(rows) : rows[i] = r

\* The multiselects: the widget and the column it filters.
Multiselects ==
    {<<"categorias_selecionadas", "CATEGORIA_SCANIA">>, <<"categorias", "CATEGORIA">>,
     <<"tipos_doc", "TIPO_DOC">>, <<"nomes_tarefa", "NOME_TAREFA">>,
     <<"tarefas_consolidadas", "TAREFA_CONSOLIDADA">>}

DueDateWithin(r, inicio, fim) ==
    /\ r.DATA_VENCIMENTO # NaT
    /\ inicio # NaT
    /\ fim # NaT
    /\ DateLE(inicio, r.DATA_VENCIMENTO)
    /\ DateLE(r.DATA_VENCIMENTO, fim)

\* C1: the result of apply_filters is a subsequence of the dataset: every
\* returned record is a record of the input, none is returned twice, and
\* returned records keep the relative order they have in the input.
C1_FilteredIsSubsequence ==
    Filtered =>
        LET out == df_filtrado.rows
            inp == df.rows
        IN  /\ \A i \in 1..Len(out) : out[i] \in Range(inp)
            /\ \A i, j \in 1..Len(out) :
                  i < j => out[i] # out[j] /\ Position(inp, out[i]) < Position(inp, out[j])

\* A filter removed the middle record of three and kept the outer two.
C1_Witness ==
    /\ Filtered
    /\ Len(df.rows) = 3
    /\ df_filtrado.rows = <<df.rows[1], df.rows[3]>>

\* The filter steps applied in the opposite order.
FiltersInReverseOrder(frame, w) ==
    LET g1 == FilterIsin(frame, "TAREFA_CONSOLIDADA", w.tarefas_consolidadas)
        g2 == FilterIsin(g1, "NOME_TAREFA", w.nomes_tarefa)
        g3 == FilterIsin(g2, "TIPO_DOC", w.tipos_doc)
        g4 == FilterIsin(g3, "CATEGORIA", w.categorias)
        g5 == FilterIsin(g4, "CATEGORIA_SCANIA", w.categorias_selecionadas)
        g6 == FilterAno(g5, w)
    IN  FilterDate(g6, w)

AllPredicatesGiven ==
    /\ ~widgets.ano_selecionado.todos
    /\ \A m \in Multiselects : widgets[m[1]] # {}

\* C2: with a year selected and no multiselect empty, a record is in the
\* result exactly when its due date is in [data_inicio, data_fim] (ends
\* included), its year is the selected one and each of its five filtered
\* cells is in the matching selection; applying the steps in the opposite
\* order gives the same result.
C2_PredicatesAreConjoined ==
    (Filtered /\ AllPredicatesGiven) =>
        /\ \A r \in Range(df.rows) :
              (r \in Range(df_filtrado.rows)) <=>
                  /\ DueDateWithin(r, widgets.data_inicio, widgets.data_fim)
                  /\ r.ANO = widgets.ano_selecionado.ano
                  /\ \A m \in Multiselects : r[m[2]] \in widgets[m[1]]
        /\ df_filtrado = FiltersInReverseOrder(df, widgets)

\* Year, dealer categories and document types all given, and the three
\* together keep one record of three.
C2_Witness ==
    /\ Filtered
    /\ AllPredicatesGiven
    /\ Len(df.rows) = 3
    /\ Len(df_filtrado.rows) = 1
    /\ widgets.tipos_doc # Column(df, "TIPO_DOC")
    /\ df.rows[1].DATA_VENCIMENTO = widgets.data_inicio

\* The multiselects C3 names.
C3_Multiselects == Multiselects \ {<<"categorias", "CATEGORIA">>}

\* C3 as stated: an empty selection in one of the four multiselects (its
\* column present, the dataset not empty) leaves no record in the result.
C3_EmptySelectionExcludesAll ==
    (/\ Filtered
     /\ df.rows # <<>>
     /\ \E m \in C3_Multiselects : widgets[m[1]] = {} /\ m[2] \in df.columns)
    => df_filtrado.rows = <<>>

\* C3 amended: an empty selection is no restriction.  When one of the four
\* multiselects is empty, the result is exactly the records that satisfy
\* the remaining predicates: the date range, the year when one is selected,
\* and every multiselect that is not empty.
C3_EmptySelectionIsNoRestriction ==
    (Filtered /\ \E m \in C3_Multiselects : widgets[m[1]] = {} /\ m[2] \in df.columns) =>
        /\ C1_FilteredIsSubsequence
        /\ \A r \in Range(df.rows) :
              (r \in Range(df_filtrado.rows)) <=>
                  /\ "DATA_VENCIMENTO" \in df.columns
                        => DueDateWithin(r, widgets.data_inicio, widgets.data_fim)
                  /\ widgets.ano_selecionado.todos
                        \/ (r.ANO # NoNumber /\ r.ANO = widgets.ano_selecionado.ano)
                  /\ \A m \in Multiselects :
                        widgets[m[1]] = {} \/ r[m[2]] \in widgets[m[1]]

\* The document types are all deselected, and the other predicates keep
\* some records and drop others.
C3_Witness ==
    /\ Filtered
    /\ "TIPO_DOC" \in df.columns
    /\ widgets.tipos_doc = {}
    /\ Len(df_filtrado.rows) >= 1
    /\ Len(df_filtrado.rows) < Len(df.rows)

\* The full selection of C4: the whole date range of the dataset, "Todos",
\* and every value present in each multiselect.
FullSelection ==
    /\ MinDate(df) # NaT
    /\ widgets.data_inicio = MinDate(df)
    /\ widgets.data_fim = MaxDate(df)
    /\ widgets.ano_selecionado = Todos
    /\ \A m \in Multiselects : widgets[m[1]] = Column(df, m[2])

\* C4: with the full selection apply_filters returns the loaded dataset
\* itself, records without a parsed due date included.
C4_FullSelectionIsIdentity ==
    (Filtered /\ FullSelection) => df_filtrado = df

-----------------------------------------------------------------------------
(* Properties of the aggregates and of main (pipeline specification). *)

EntryValues(entries) == [i \in 1..Len(entries) |-> entries[i].VALOR]

\* C5: the values of the per-category aggregate add up to the sum of VALOR
\* over the filtered dataset, the total of the cost card.
C5_TotalConservation ==
    (pc \in {"charts", "done"} /\ ~charts.warning) =>
        /\ SumSeq(EntryValues(charts.df_categoria)) = SumSeq(Valores(df_filtrado))
        /\ SumSeq(EntryValues(charts.df_categoria)) = metrics.custo_total

\* The dataset of the example of C6: three records, due in 2023-01 (100),
\* 2023-02 (200) and 2024-01 (50), in any order.
ExampleDataset ==
    /\ Len(df.rows) = 3
    /\ {<<r.ANO, r.MES, r.VALOR>> : r \in Range(df.rows)} =
          {<<<<2023>>, <<1>>, <<100>>>>, <<<<2023>>, <<2>>, <<200>>>>, <<<<2024>>, <<1>>, <<50>>>>}

\* No multiselect restricts: each is empty or holds every value present.
NoMultiselectRestricts ==
    \A m \in Multiselects : widgets[m[1]] \in {{}, Column(df, m[2])}

FullDateRange ==
    widgets.data_inicio = MinDate(df) /\ widgets.data_fim = MaxDate(df)

\* The date range holds the due dates of February 2023 and no other due date
\* of the dataset.
OnlyFebruary2023 ==
    \A r \in Range(df.rows) :
        DueDateWithin(r, widgets.data_inicio, widgets.data_fim)
            <=> (r.ANO = <<2023>> /\ r.MES = <<2>>)

\* C6: on the example dataset, year 2023 over the full date range gives a
\* total of 300; a date range covering only 2023-02 with "Todos" gives 200;
\* unfiltered, the monthly aggregate has three groups that add up to 350.
C6_Example ==
    (ExampleDataset /\ NoMultiselectRestricts) =>
        /\ (/\ pc \in {"metrics", "charts", "done"}
            /\ FullDateRange
            /\ widgets.ano_selecionado = Ano(<<2023>>))
           => metrics.custo_total = 300
        /\ (/\ pc \in {"metrics", "charts", "done"}
            /\ OnlyFebruary2023
            /\ widgets.ano_selecionado = Todos)
           => metrics.custo_total = 200
        /\ (/\ pc \in {"charts", "done"}
            /\ FullDateRange
            /\ widgets.ano_selecionado = Todos)
           => /\ Len(charts.df_mensal) = 3
              /\ SumSeq(EntryValues(charts.df_mensal)) = 350

\* The example dataset, filtered by year 2023 over the full date range and
\* rendered.
C6_Witness ==
    /\ pc = "done"
    /\ ExampleDataset
    /\ NoMultiselectRestricts
    /\ FullDateRange
    /\ widgets.ano_selecionado = Ano(<<2023>>)
    /\ metrics.custo_total = 300

\* load_data cannot read the sheet: no file, no sheet, or no VALOR column.
LoadFails == sheet.status # "ok" \/ "VALOR" \notin sheet.columns

RunEnded == pc \in {"stopped", "raised", "done"}

\* C10 as stated: when the load fails, load_data returns an empty dataset
\* with an error, and the run still renders the metrics, the charts and the
\* tables, each in its empty state.
C10_ViewsRenderEmptyState ==
    (RunEnded /\ LoadFails) =>
        /\ load_error
        /\ empty(df)
        /\ metrics.rendered /\ metrics.zero_cards
        /\ charts.rendered /\ charts.warning
        /\ tables.rendered /\ tables.warning

\* C10 amended: when the load fails, load_data returns an empty dataset
\* with an error, and main stops right after it: no widget is built, no
\* filter applied and no view rendered.
C10_LoadFailureStopsRun ==
    (pc # "start" /\ LoadFails) =>
        /\ load_error
        /\ df = EmptyDataFrame
        /\ pc = "stopped"
        /\ widgets = NoWidgets
        /\ df_filtrado = EmptyDataFrame
        /\ ~metrics.rendered /\ ~charts.rendered /\ ~tables.rendered

\* A run that stopped on a sheet without a VALOR column.
C10_Witness ==
    /\ pc = "stopped"
    /\ load_error
    /\ sheet.status = "ok"
    /\ sheet.rows # <<>>
    /\ "VALOR" \notin sheet.columns

-----------------------------------------------------------------------------
(* Properties of the rankings (ranking specification). *)

TaskNames == {r.TAREFA_CONSOLIDADA : r \in Range(df_filtrado.rows)} \ {NaN}

\* Sum of VALOR over the filtered records of consolidated task k.
TaskTotal(k) ==
    LET OfTask(r) == r.TAREFA_CONSOLIDADA = k
    IN  SumSeq(Valores([df_filtrado EXCEPT !.rows = SelectSeq(df_filtrado.rows, OfTask)]))

KeptTasks == {tables.df_tarefa[i].key : i \in 1..Len(tables.df_tarefa)}

\* C7: the consolidated-task aggregate has at most 15 entries, each the
\* total of one task of the filtered dataset; with more than 15 tasks it has
\* 15 entries, and no task left out has a larger total than a task kept.
C7_AtMostFifteenTasks ==
    pc = "done" =>
        /\ Len(tables.df_tarefa) <= 15
        /\ Cardinality(KeptTasks) = Len(tables.df_tarefa)
        /\ \A i \in 1..Len(tables.df_tarefa) :
              /\ tables.df_tarefa[i].key \in TaskNames
              /\ tables.df_tarefa[i].VALOR = TaskTotal(tables.df_tarefa[i].key)
        /\ Cardinality(TaskNames) > 15 =>
              /\ Len(tables.df_tarefa) = 15
              /\ \A k \in TaskNames \ KeptTasks : \A j \in KeptTasks :
                    TaskTotal(k) <= TaskTotal(j)

\* More than 15 tasks, 15 kept, and a task left out has a smaller total than
\* every task kept.
C7_Witness ==
    /\ pc = "done"
    /\ Cardinality(TaskNames) > 15
    /\ Len(tables.df_tarefa) = 15
    /\ \E k \in TaskNames \ KeptTasks : \A j \in KeptTasks : TaskTotal(k) < TaskTotal(j)

\* C8: the dealer-category aggregate is in non-decreasing order of value,
\* the consolidated-task aggregate in non-increasing order of value.
C8_AggregatesAreOrdered ==
    /\ pc \in {"charts", "done"} =>
          \A i \in 1..Len(charts.df_concessionaria) - 1 :
              charts.df_concessionaria[i].VALOR <= charts.df_concessionaria[i + 1].VALOR
    /\ pc = "done" =>
          \A i \in 1..Len(tables.df_tarefa) - 1 :
              tables.df_tarefa[i].VALOR >= tables.df_tarefa[i + 1].VALOR

\* Both aggregates rendered, each with entries of different values, and the
\* dealer categories not in the order of their names.
C8_Witness ==
    /\ pc = "done"
    /\ Len(charts.df_concessionaria) = 3
    /\ charts.df_concessionaria[1].VALOR < charts.df_concessionaria[3].VALOR
    /\ NameLess(charts.df_concessionaria[3].key, charts.df_concessionaria[1].key)
    /\ Len(tables.df_tarefa) >= 2
    /\ tables.df_tarefa[1].VALOR > tables.df_tarefa[Len(tables.df_tarefa)].VALOR

-----------------------------------------------------------------------------
(* Properties of load_data (loader specification). *)

Coercible(cell) == cell.kind \in {"number", "numeric_text"}

\* C9: the loader drops exactly the rows whose amount is missing or not a
\* number and keeps the others, as they are and in their order; every
\* loaded record has a numeric amount, and a bad amount fails no load.
C9_LoaderDropsBadAmounts ==
    (pc # "start" /\ ~LoadFails) =>
        /\ ~load_error
        /\ \A i \in 1..Len(sheet.rows) :
              (\E r \in Range(df.rows) : r.idx = i) <=> Coercible(sheet.rows[i].VALOR)
        /\ \A i, j \in 1..Len(df.rows) : i < j => df.rows[i].idx < df.rows[j].idx
        /\ \A r \in Range(df.rows) :
              /\ r.VALOR = <<sheet.rows[r.idx].VALOR.val>>
              /\ r.CATEGORIA = sheet.rows[r.idx].CATEGORIA
              /\ r.CATEGORIA_SCANIA = sheet.rows[r.idx].CATEGORIA_SCANIA
              /\ r.TIPO_DOC = sheet.rows[r.idx].TIPO_DOC
              /\ r.NOME_TAREFA = sheet.rows[r.idx].NOME_TAREFA
              /\ r.TAREFA_CONSOLIDADA = sheet.rows[r.idx].TAREFA_CONSOLIDADA
              /\ r.NOME_FORNECEDOR = sheet.rows[r.idx].NOME_FORNECEDOR

\* Three rows, the middle one with text for an amount: the load succeeds
\* and keeps the outer two.
C9_Witness ==
    /\ pc = "loaded"
    /\ ~load_error
    /\ Len(sheet.rows) = 3
    /\ sheet.rows[2].VALOR.kind = "text"
    /\ Len(df.rows) = 2
    /\ df.rows[1].idx = 1
    /\ df.rows[2].idx = 3

-----------------------------------------------------------------------------
(* Properties of the empty result (pipeline specification). *)

\* C12: when the filtered result is empty every view that has rendered
\* shows its empty state: the four cards their zero text (no total, no
\* mean, so no division by the record count), the charts the warning and no
\* aggregate, the tables the warning, no aggregate and no download.
C12_EmptyResultRendersPlaceholders ==
    (Filtered /\ empty(df_filtrado)) =>
        /\ metrics.rendered =>
              /\ metrics.zero_cards
              /\ metrics.custo_total = 0
              /\ metrics.qtd_registros = 0
              /\ metrics.custo_medio = 0
              /\ metrics.maior_despesa = 0
        /\ charts.rendered =>
              /\ charts.warning
              /\ charts.df_mensal = <<>>
              /\ charts.df_categoria = <<>>
              /\ charts.df_concessionaria = <<>>
        /\ tables.rendered =>
              /\ tables.warning
              /\ tables.df_tarefa = <<>>
              /\ tables.df_fornecedores = <<>>
              /\ tables.download = <<>>

\* Two records loaded, the filters keep none, and the three views rendered.
C12_Witness ==
    /\ pc = "done"
    /\ Len(df.rows) = 2
    /\ df_filtrado.rows = <<>>
    /\ metrics.rendered /\ metrics.zero_cards
    /\ charts.rendered /\ charts.warning
    /\ tables.rendered /\ tables.warning

-----------------------------------------------------------------------------
(* Properties of the monthly aggregate (ranking specification). *)

\* The filtered records that have a due date.
DueRecords == {r \in Range(df_filtrado.rows) : r.DATA_VENCIMENTO # NaT}

\* The (year, month) of the due dates of the filtered dataset.
DueMonths == {<<r.DATA_VENCIMENTO[1], r.DATA_VENCIMENTO[2]>> : r \in DueRecords}

\* Sum of VALOR over the filtered records due in month k.
DueMonthTotal(k) ==
    LET DueIn(r) ==
            r.DATA_VENCIMENTO # NaT /\ <<r.DATA_VENCIMENTO[1], r.DATA_VENCIMENTO[2]>> = k
    IN  SumSeq(Valores([df_filtrado EXCEPT !.rows = SelectSeq(df_filtrado.rows, DueIn)]))

\* C13: the monthly aggregate has one entry for each (year, month) of the
\* due dates of the filtered dataset and no other entry; the value of an
\* entry is the sum of VALOR of the records due in that month; the entries
\* come by year, then month, ascending.
C13_MonthlyAggregateByDueMonth ==
    pc \in {"charts", "done"} =>
        /\ Len(charts.df_mensal) = Cardinality(DueMonths)
        /\ {charts.df_mensal[i].key : i \in 1..Len(charts.df_mensal)} = DueMonths
        /\ \A i \in 1..Len(charts.df_mensal) :
              charts.df_mensal[i].VALOR = DueMonthTotal(charts.df_mensal[i].key)
        /\ \A i, j \in 1..Len(charts.df_mensal) :
              i < j =>
                  \/ charts.df_mensal[i].key[1] < charts.df_mensal[j].key[1]
                  \/ /\ charts.df_mensal[i].key[1] = charts.df_mensal[j].key[1]
                     /\ charts.df_mensal[i].key[2] < charts.df_mensal[j].key[2]

\* Four due months, each with more than one record, the first record of the
\* dataset due in the third month of the aggregate, and no record issued in
\* the month it is due.
C13_Witness ==
    /\ pc = "done"
    /\ Len(charts.df_mensal) = 4
    /\ \A i \in 1..4 : charts.df_mensal[i].count >= 2
    /\ charts.df_mensal[1].key = <<2023, 1>>
    /\ charts.df_mensal[3].key = <<2023, 12>>
    /\ charts.df_mensal[4].key = <<2024, 1>>
    /\ df_filtrado.rows[1].DATA_VENCIMENTO = <<2023, 12, 15>>
    /\ \A r \in Range(df_filtrado.rows) :
          <<r.DATA_EMISSAO[1], r.DATA_EMISSAO[2]>> # <<r.DATA_VENCIMENTO[1], r.DATA_VENCIMENTO[2]>>

-----------------------------------------------------------------------------
(* Properties of a session (session specification). *)

\* The run has loaded the dataset: df is what load_data returned.
Loaded == pc \in {"loaded", "filters", "filtered", "metrics", "charts", "done"}

\* C11: in every run of a session, whatever calls of apply_filters came
\* before, the dataset passed to apply_filters is still the dataset as
\* loaded (same records, same order, same cells), and the result is the one
\* apply_filters gives for the loaded dataset and the predicate set of this
\* call, so two calls with the same predicate set return the same result.
C11_ApplyFiltersIsPure ==
    /\ Loaded => df = load_data(sheet).df
    /\ Filtered => df_filtrado = apply_filters(load_data(sheet).df, widgets)

\* The third run of a session: the filters dropped one of two records, and
\* the dataset still has both.
C11_Witness ==
    /\ run.number = 3
    /\ Filtered
    /\ Len(df.rows) = 2
    /\ Len(df_filtrado.rows) = 1
    /\ widgets.tipos_doc # Column(df, "TIPO_DOC")
    /\ widgets.tipos_doc # {}

\* s is the sorted list of the members of S.
IsSortedListOf(s, S) ==
    /\ Range(s) = S
    /\ \A i, j \in 1..Len(s) : i < j => NameLess(s[i], s[j])

\* The run is past the dealer-category widgets (lines 231-249).
PastDealerWidgets ==
    /\ pc \in {"filters", "filtered", "metrics", "charts", "done"}
    /\ "CATEGORIA_SCANIA" \in df.columns

\* In a run the "Todas as Categorias" button started, the stored selection
\* is the full sorted list of the dealer categories once the widgets are
\* built.
C14_ButtonStoresFullList ==
    (PastDealerWidgets /\ run.button) =>
        IsSortedListOf(session_state.selected_categories, Column(df, "CATEGORIA_SCANIA"))

\* C14: on the first run of a session the stored dealer-category selection,
\* the default of the dealer multiselect, is the full sorted list of the
\* dealer categories of the dataset; in a later run the button started it
\* is the full list again.
C14_StoredSelectionIsFullList ==
    /\ (PastDealerWidgets /\ run.number = 1) =>
          /\ IsSortedListOf(session_state.selected_categories, Column(df, "CATEGORIA_SCANIA"))
          /\ widgets.categorias_selecionadas = Column(df, "CATEGORIA_SCANIA")
    /\ C14_ButtonStoresFullList

\* A later run the button started: two dealer categories, stored in the
\* order of their names, the sheet having them the other way round.
C14_ButtonWitness ==
    /\ PastDealerWidgets
    /\ run.number > 1
    /\ run.button
    /\ session_state.selected_categories = <<"A", "B">>
    /\ df.rows[1].CATEGORIA_SCANIA = "B"

=============================================================================
